---------------------------- MODULE Spec2Model ----------------------------
(***************************************************************************)
(* Model of the attendance marker (attendance_app/app.py, utils.py).       *)
(*                                                                         *)
(* A roster is a pandas DataFrame: a set of column names and a sequence of *)
(* rows.  A cell is a typed literal [t, v]: t is the type pandas holds it  *)
(* as and v its text.                                                      *)
(*   Spec       a session of the app: one action per run of main()         *)
(*   SpecMark   mark_attendance as a function, applied to drawn rosters    *)
(*   SpecCodec  make_payload, generate_qr_image and decode_qr_from_bytes   *)
(*                                                                         *)
(* pandas and the image libraries are modelled by what the code relies on: *)
(* astype(str) prints a missing value ("nan", "None") in pandas 1.x/2.x    *)
(* and keeps it missing in 3.x, so the build is a variable fixed at the    *)
(* start; the decoders read QR codes only.                                 *)
(***************************************************************************)
EXTENDS Naturals, Sequences, FiniteSets, TLC

VARIABLES
    astype_keeps_na,  \* the pandas build: Series.astype(str) keeps missing values (3.x) or prints them (1.x/2.x)
    now,              \* the clock datetime.now() reads
    disk,             \* path -> the file on disk
    df,               \* mark_attendance's df argument (mutated in place)
    identifier,       \* its identifier argument
    columns_to_mark,  \* its columns_to_mark argument
    source_path,      \* its source_path argument
    ret,              \* what the last call returned
    calls,            \* how many calls were made
    df0,              \* df before the last call
    disk0,            \* disk before the last call
    ret0,             \* what the call before the last returned
    wrote,            \* the last call's write of source_path: "none", "ok" or "raise"
    uploaded,         \* the sidebar's file_uploader: the uploaded file, kept across reruns
    mode,             \* the sidebar's mode radio at the last run of main
    status,           \* how the last run of main went: "ok", "no_roster" or "exception"
    origin,           \* where the last run loaded df from: "upload", a path or "none"
    export,           \* the roster the last download button offered
    marked,           \* the <<row, column>> cells scans marked in this session
    segno,            \* segno.make(payload, kind="aztec"): "absent", "raises" or "aztec"
    cv2,              \* OpenCV's QRCodeDetector on a QR image: "absent", "decodes", "misses" or "raises"
    pyzbar,           \* pyzbar's decode on a QR image: "absent", "decodes", "misses" or "raises"
    c_df,             \* the roster whose first row a code is made for
    image_bytes,      \* the image handed to decode_qr_from_bytes
    decoded,          \* what decode_qr_from_bytes gave
    tried,            \* the decoders it ran, in order
    cpc,              \* codec: "start", "image" or "decoded"
    sessions,         \* browser session -> where its run of main is and what it loaded
    writes            \* the overwrites of the roster file by scans, in order

vars == <<astype_keeps_na, now, disk, df, identifier, columns_to_mark,
          source_path, ret, calls, df0, disk0, ret0, wrote,
          uploaded, mode, status, origin, export, marked,
          segno, cv2, pyzbar, c_df, image_bytes, decoded, tried, cpc,
          sessions, writes>>

codecVars == <<segno, cv2, pyzbar, c_df, image_bytes, decoded, tried, cpc>>
sessionVars == <<uploaded, mode, status, origin, export, marked>>
callVars == <<calls, ret0>>
raceVars == <<sessions, writes>>

-----------------------------------------------------------------------------
(* Bounds *)
MaxRows == 2
MaxCalls == 2

-----------------------------------------------------------------------------
(* Cells *)
Str(s) == [t |-> "str", v |-> s]
Int(s) == [t |-> "int", v |-> s]       \* an int64 cell, v its decimal numeral
Float(s) == [t |-> "float", v |-> s]   \* a float64 cell, v as str() prints it
NaN == [t |-> "nan", v |-> ""]         \* a blank cell as read_csv gives it
None == [t |-> "none", v |-> ""]       \* Python's None in an object column
True == [t |-> "bool", v |-> "True"]
False == [t |-> "bool", v |-> "False"]
IsNA(c) == c.t \in {"nan", "none"}

DEFAULT_COLUMNS == {"Dinner", "Pizza", "Breakfast", "MRD"}

ts_col(c) ==
    CASE c = "Dinner" -> "Dinner_ts"
      [] c = "Pizza" -> "Pizza_ts"
      [] c = "Breakfast" -> "Breakfast_ts"
      [] c = "MRD" -> "MRD_ts"

IdColumns == {"Srn", "Email", "Name"}
TsColumns == {ts_col(c) : c \in DEFAULT_COLUMNS}
AllColumns == IdColumns \cup {"Team Name"} \cup DEFAULT_COLUMNS \cup TsColumns

\* datetime.now().isoformat() at clock reading t
ISO == <<"2025-01-01T00:00:01", "2025-01-01T00:00:02", "2025-01-01T00:00:03",
         "2025-01-01T00:00:04", "2025-01-01T00:00:05", "2025-01-01T00:00:06">>
isoformat(t) == ISO[t]

-----------------------------------------------------------------------------
(* pandas *)

\* Series.astype(str): every value printed with str(); a missing value prints
\* as "nan"/"None" unless the build keeps it missing
astype_str(c, keeps) ==
    IF IsNA(c)
    THEN IF keeps THEN NaN ELSE Str(IF c.t = "nan" THEN "nan" ELSE "None")
    ELSE Str(c.v)

\* Series.fillna(s)
fillna(c, s) == IF IsNA(c) THEN Str(s) ELSE c

\* df.get(col, pd.Series([None]*len(df)))[k]
df_get(d, col, k) == IF col \in d.cols THEN d.rows[k][col] ELSE None

\* (series == identifier)[k]
series_eq(c, i) == c.t = "str" /\ c.v = i


\* what Python's bool() gives for a cell (bool(nan) is True)
py_bool(c) ==
    CASE c.t = "bool" -> c.v = "True"
      [] c.t = "str" -> c.v # ""
      [] c.t = "int" -> c.v # "0"
      [] c.t = "float" -> c.v # "0.0"
      [] c.t = "nan" -> TRUE
      [] OTHER -> FALSE

Absent == [t |-> "absent", v |-> ""]   \* filler of a column the frame does not have

-----------------------------------------------------------------------------
(* Files *)
NoPath == "<None>"
WorkspaceCsv == "Ignition 1.0 - QR.csv"
RootCsv == "teams.csv"
RootXlsx == "teams.xlsx"
Paths == {WorkspaceCsv, RootXlsx, RootCsv}
Missing == [fmt |-> "missing", cols |-> {}, rows |-> <<>>]

\* the text to_csv writes for a cell
csv_text(c) == IF IsNA(c) \/ c.t = "absent" THEN "" ELSE c.v

NaStrings == {"", "nan", "NaN", "None", "NA", "null"}
Numerals == {"0", "1", "2", "3", "4", "5", "6", "7", "8", "9"}

FloatTexts == {n \o ".0" : n \in Numerals}

\* the cell read_csv parses from a text
csv_parse(s) ==
    CASE s \in NaStrings -> NaN
      [] s \in Numerals -> Int(s)
      [] s \in FloatTexts -> Float(s)
      [] s = "True" -> True
      [] s = "False" -> False
      [] OTHER -> Str(s)

\* df.to_csv(path, index=False): the file's text, cell by cell
to_csv(d) ==
    [fmt |-> "csv", cols |-> d.cols,
     rows |-> [k \in DOMAIN d.rows |->
                 [c \in AllColumns |-> IF c \in d.cols THEN csv_text(d.rows[k][c]) ELSE ""]]]

\* df.to_excel(buf, index=False): the workbook, cell by cell
to_excel(d) == [to_csv(d) EXCEPT !.fmt = "xlsx"]

NoDf == [cols |-> {}, rows |-> <<>>]

\* a column of numbers with a blank in it is float64: pandas holds its
\* integers as floats
float_column(d, c) ==
    /\ \A k \in DOMAIN d.rows : d.rows[k][c].t \in {"int", "float", "nan"}
    /\ \E k \in DOMAIN d.rows : d.rows[k][c].t \in {"float", "nan"}

infer_dtypes(d) ==
    [d EXCEPT !.rows =
        [k \in DOMAIN d.rows |->
            [c \in AllColumns |->
                IF d.rows[k][c].t = "int" /\ float_column(d, c)
                THEN Float(d.rows[k][c].v \o ".0")
                ELSE d.rows[k][c]]]]

\* pd.read_csv(path)
read_csv(f) ==
    infer_dtypes(
        [cols |-> f.cols,
         rows |-> [k \in DOMAIN f.rows |->
                     [c \in AllColumns |->
                        IF c \in f.cols THEN csv_parse(f.rows[k][c]) ELSE Absent]]])

-----------------------------------------------------------------------------
(* mark_attendance *)

\* mask[k]: the identifier equals the row's Srn, Email or Name as a string
mask(d, k, i, keeps) ==
    \E col \in IdColumns :
        series_eq(fillna(astype_str(df_get(d, col, k), keeps), ""), i)

mask_any(d, i, keeps) == \E k \in DOMAIN d.rows : mask(d, k, i, keeps)

\* a variant that flips the flag of a matching row instead of setting it
marked_cell_toggle(d, k, c, i, C, t, keeps) ==
    IF c \in C
    THEN IF mask(d, k, i, keeps)
         THEN IF c \in d.cols /\ d.rows[k][c] = True THEN False ELSE True
         ELSE IF c \in d.cols THEN d.rows[k][c] ELSE False
    ELSE IF \E m \in C : c = ts_col(m)
    THEN IF mask(d, k, i, keeps) THEN Str(isoformat(t))
         ELSE IF c \in d.cols THEN d.rows[k][c] ELSE NaN
    ELSE d.rows[k][c]

\* the value of column c in row k after the loop over columns_to_mark
marked_cell(d, k, c, i, C, t, keeps) ==
    IF c \in C
    THEN IF mask(d, k, i, keeps) THEN True
         ELSE IF c \in d.cols THEN d.rows[k][c] ELSE False
    ELSE IF \E m \in C : c = ts_col(m)
    THEN IF mask(d, k, i, keeps) THEN Str(isoformat(t))
         ELSE IF c \in d.cols THEN d.rows[k][c] ELSE NaN
    ELSE d.rows[k][c]

\* a variant that marks only the first row the mask selects
mark_rows_first_only(d, i, C, t, keeps) ==
    [cols |-> d.cols \cup C \cup {ts_col(m) : m \in C},
     rows |-> [k \in DOMAIN d.rows |->
                 [c \in AllColumns |->
                    IF \E j \in 1..(k - 1) : mask(d, j, i, keeps)
                    THEN marked_cell(d, k, c, "<no such id>", C, t, keeps)
                    ELSE marked_cell(d, k, c, i, C, t, keeps)]]]

\* a variant that marks every row once some row matches
mark_rows_every_row(d, i, C, t, keeps) ==
    [cols |-> d.cols \cup C \cup {ts_col(m) : m \in C},
     rows |-> [k \in DOMAIN d.rows |->
                 [c \in AllColumns |->
                    IF c \in C THEN True
                    ELSE IF \E m \in C : c = ts_col(m) THEN Str(isoformat(t))
                    ELSE d.rows[k][c]]]]

\* df after the loop: each column of C set True, each paired _ts column set to now, where mask holds
mark_rows(d, i, C, t, keeps) ==
    [cols |-> d.cols \cup C \cup {ts_col(m) : m \in C},
     rows |-> [k \in DOMAIN d.rows |->
                 [c \in AllColumns |-> marked_cell(d, k, c, i, C, t, keeps)]]]

\* whether mark_attendance writes df back: "if source_path:"
writes_source(path) == path # NoPath

\* a variant that undoes the marks and fails when the write raises
mark_attendance_rollback(d, dsk, i, C, path, t, wr, keeps) ==
    IF ~mask_any(d, i, keeps)
    THEN [df |-> d, disk |-> dsk, ok |-> FALSE, wrote |-> "none",
          msg |-> "No matching row found for id '" \o i \o "'"]
    ELSE LET m == mark_rows(d, i, C, t, keeps) IN
         IF writes_source(path)
         THEN IF wr = "raise"
              THEN [df |-> d, disk |-> dsk, ok |-> FALSE, wrote |-> "raise",
                    msg |-> "Failed to write to source CSV: error"]
              ELSE [df |-> m, disk |-> [dsk EXCEPT ![path] = to_csv(m)],
                    ok |-> TRUE, wrote |-> "ok", msg |-> "Marked"]
         ELSE [df |-> m, disk |-> dsk, ok |-> TRUE, wrote |-> "none", msg |-> "Marked"]

\* the whole call: [df, disk, ok, msg], and what became of the write; wr is
\* whether to_csv raises (the file cannot be opened for writing)
mark_attendance(d, dsk, i, C, path, t, wr, keeps) ==
    IF ~mask_any(d, i, keeps)
    THEN [df |-> d, disk |-> dsk, ok |-> FALSE, wrote |-> "none",
          msg |-> "No matching row found for id '" \o i \o "'"]
    ELSE LET m == mark_rows(d, i, C, t, keeps) IN
         IF writes_source(path)
         THEN IF wr = "raise"
              THEN [df |-> m, disk |-> dsk, ok |-> TRUE, wrote |-> "raise",
                    msg |-> "Marked (but failed to write to source CSV: error)"]
              ELSE [df |-> m, disk |-> [dsk EXCEPT ![path] = to_csv(m)],
                    ok |-> TRUE, wrote |-> "ok", msg |-> "Marked"]
         ELSE [df |-> m, disk |-> dsk, ok |-> TRUE, wrote |-> "none", msg |-> "Marked"]

-----------------------------------------------------------------------------
(* The payload codec (utils.py) *)

NoImage == [kind |-> "none", data |-> ""]
NoResult == [kind |-> "none", data |-> ""]

\* row.get(col) on a row of df.iterrows()
row_get(d, k, col) == IF col \in d.cols THEN d.rows[k][col] ELSE None

\* a or b
py_or(a, b) == IF py_bool(a) THEN a ELSE b

\* json.dumps of one value (ensure_ascii=False; float nan prints as NaN)
json_lit(c) ==
    CASE c.t = "str" -> "\"" \o c.v \o "\""
      [] c.t \in {"int", "float"} -> c.v
      [] c.t = "bool" -> IF c.v = "True" THEN "true" ELSE "false"
      [] c.t = "nan" -> "NaN"
      [] OTHER -> "null"

\* json.dumps({"team": team, "name": name})
json_dumps(o) ==
    "{\"team\": " \o json_lit(o.team) \o ", \"name\": " \o json_lit(o.name) \o "}"

\* make_payload(row): the row has no teamName, team or name key
make_payload(d, k) ==
    json_dumps([team |-> py_or(row_get(d, k, "Team Name"),
                               py_or(None, py_or(None, Str("")))),
                name |-> py_or(row_get(d, k, "Name"), py_or(None, Str("")))])

\* generate_qr_image(payload) saved as PNG: an Aztec code when segno.make
\* returns one, a QR code from qrcode otherwise
generate_qr_image(payload, sg) ==
    IF sg = "aztec"
    THEN [kind |-> "aztec", data |-> payload]
    ELSE [kind |-> "qr", data |-> payload]

\* the first decoder: cv2.QRCodeDetector.detectAndDecode inside try/except;
\* "" when it finds no QR code or raises (bytes that are no image make it raise)
cv2_data(bytes, cv) ==
    IF cv = "decodes" /\ bytes.kind = "qr" THEN bytes.data ELSE ""

\* the second decoder: Image.open and pyzbar's decode, outside any try
pyzbar_result(bytes, pz) ==
    IF bytes.kind = "garbage" \/ pz = "raises"
    THEN [kind |-> "exception", data |-> ""]
    ELSE IF pz = "decodes" /\ bytes.kind = "qr"
    THEN [kind |-> "value", data |-> bytes.data]
    ELSE [kind |-> "none", data |-> ""]

\* decode_qr_from_bytes(image_bytes): [result, tried]
decode_qr_from_bytes(bytes, cv, pz) ==
    LET t1 == IF cv # "absent" THEN <<"cv2">> ELSE <<>>
        first == IF cv # "absent" THEN cv2_data(bytes, cv) ELSE ""
    IN IF first # ""
       THEN [result |-> [kind |-> "value", data |-> first], tried |-> t1]
       ELSE IF pz # "absent"
       THEN [result |-> pyzbar_result(bytes, pz), tried |-> t1 \o <<"pyzbar">>]
       ELSE [result |-> [kind |-> "none", data |-> ""], tried |-> t1]

\* the codec at rest, in the specifications that do not run it
CodecIdle ==
    /\ segno = "absent" /\ cv2 = "absent" /\ pyzbar = "absent"
    /\ c_df = NoDf /\ image_bytes = NoImage /\ decoded = NoResult
    /\ tried = <<>> /\ cpc = "start"

\* the browser sessions open on the app, each with its own runs of main
Sessions == {"A", "B"}
\* a session between two runs of main: no df, no source_path
NoRun == [pc |-> "idle", df |-> NoDf, path |-> NoPath, seen |-> 0]

\* the sessions at rest, in the specifications of a single session or call
RaceIdle ==
    /\ sessions = [s \in Sessions |-> NoRun]
    /\ writes = <<>>

-----------------------------------------------------------------------------
(* SpecMark: mark_attendance applied, twice over, to drawn rosters *)

\* the identity cells a drawn row takes: <<Name, Srn, Email, Team Name>>
Profiles ==
    { <<Str("Al"), Int("1"), Str("a@x"), Str("T1")>>,
      <<Str("al"), NaN, NaN, Str("T1")>>,
      <<Str("1"), Int("3"), Str(""), Str("T2")>> }

Identifiers == {"Al", "1", "a@x", "", "None"}
CategorySets == {{}, {"Dinner"}, {"Pizza", "MRD"}}
\* the attendance columns a drawn roster comes with
Layouts == {"none", "ensured", "reloaded"}

layout_cols(l) == IF l = "none" THEN {} ELSE DEFAULT_COLUMNS \cup TsColumns

\* a drawn row: profile p under identity columns ic and layout l, at index k
drawn_cell(p, ic, l, k, c) ==
    CASE c = "Name" -> IF c \in ic THEN p[1] ELSE Absent
      [] c = "Srn" -> IF c \in ic THEN p[2] ELSE Absent
      [] c = "Email" -> IF c \in ic THEN p[3] ELSE Absent
      [] c = "Team Name" -> p[4]
      [] c \in DEFAULT_COLUMNS ->
            IF l = "none" THEN Absent
            ELSE IF l = "reloaded" /\ c = "Dinner" /\ k = 1 THEN True ELSE False
      [] OTHER ->
            IF l = "none" THEN Absent
            ELSE IF l = "ensured" THEN Str("")
            ELSE IF c = "Dinner_ts" /\ k = 1 THEN Str(isoformat(1)) ELSE NaN

\* layouts: "none" a roster without attendance columns, "ensured" one just
\* through ensure_attendance_columns, "reloaded" one read back from a saved
\* CSV in which the first row has Dinner marked
drawn_df(ps, ic, l) ==
    infer_dtypes(
        [cols |-> ic \cup {"Team Name"} \cup layout_cols(l),
         rows |-> [k \in DOMAIN ps |->
                     [c \in AllColumns |-> drawn_cell(ps[k], ic, l, k, c)]]])

Rosters(n) == UNION {[1..m -> Profiles] : m \in 0..n}

NoRet == [ok |-> FALSE, msg |-> "<not called>"]

InitMark ==
    /\ astype_keeps_na \in BOOLEAN
    /\ now = 2
    /\ \E ps \in Rosters(MaxRows), ic \in SUBSET IdColumns, l \in Layouts :
          /\ df = drawn_df(ps, ic, l)
          /\ df0 = df
    /\ identifier \in Identifiers
    /\ columns_to_mark \in CategorySets
    /\ source_path \in {NoPath, RootCsv}
    /\ disk = [p \in Paths |-> IF p = source_path THEN to_csv(df) ELSE Missing]
    /\ disk0 = disk
    /\ ret = NoRet
    /\ ret0 = NoRet
    /\ wrote = "none"
    /\ calls = 0
    /\ uploaded = Missing
    /\ mode = "none"
    /\ status = "none"
    /\ origin = "none"
    /\ export = NoDf
    /\ marked = {}
    /\ CodecIdle
    /\ RaceIdle

\* one call of mark_attendance(df, identifier, columns_to_mark, source_path)
Mark(wr) ==
    /\ calls < MaxCalls
    /\ LET r == mark_attendance(df, disk, identifier, columns_to_mark, source_path,
                                now, wr, astype_keeps_na) IN
         /\ df' = r.df
         /\ disk' = r.disk
         /\ ret' = [ok |-> r.ok, msg |-> r.msg]
         /\ wrote' = r.wrote
    /\ ret0' = ret
    /\ df0' = df
    /\ disk0' = disk
    /\ calls' = calls + 1
    /\ now' = now + 1
    /\ UNCHANGED <<astype_keeps_na, identifier, columns_to_mark, source_path>>
    /\ UNCHANGED <<sessionVars, codecVars, raceVars>>

\* the write can fail only where there is one
NextMark ==
    \E wr \in IF writes_source(source_path) THEN {"ok", "raise"} ELSE {"ok"} :
        Mark(wr)

SpecMark == InitMark /\ [][NextMark]_vars

-----------------------------------------------------------------------------
(* Claims about mark_attendance, under SpecMark *)

\* the value the contract gives a record in an identity column: the cell's
\* text; the empty string for a blank cell or a column the roster lacks
claim_value(d, col, k) ==
    IF col \notin d.cols \/ IsNA(d.rows[k][col]) THEN "" ELSE d.rows[k][col].v

claim_match(d, k, i) == \E col \in IdColumns : claim_value(d, col, k) = i

nonempty_ts(c) == c.t = "str" /\ c.v # ""

\* every row the mask selects in d0 has every column of C True and its _ts non-empty in d
all_matches_marked(d0, d, i, C, keeps) ==
    \A k \in DOMAIN d0.rows :
        mask(d0, k, i, keeps) =>
            \A c \in C : /\ c \in d.cols /\ ts_col(c) \in d.cols
                         /\ d.rows[k][c] = True
                         /\ nonempty_ts(d.rows[k][ts_col(c)])

\* C1: when no record has Srn, Email or Name equal to the identifier (a blank
\* cell or a lacking column counting as the empty string), the call
\* fails with "No matching row found for id '<i>'" and leaves the roster (its
\* columns, flags and timestamps) and the source file unchanged.
C1_NoMatchFails ==
    (calls >= 1 /\ \A k \in DOMAIN df0.rows : ~claim_match(df0, k, identifier)) =>
        /\ ret = [ok |-> FALSE,
                  msg |-> "No matching row found for id '" \o identifier \o "'"]
        /\ df = df0
        /\ disk = disk0

\* C2: when at least one record matches, the call succeeds and every matching
\* record (not only the first) has every category True and its _ts non-empty.
C2_AllMatchesMarked ==
    (calls >= 1 /\ mask_any(df0, identifier, astype_keeps_na)) =>
        /\ ret.ok
        /\ all_matches_marked(df0, df, identifier, columns_to_mark, astype_keeps_na)

C2_Witness ==
    /\ calls = 1 /\ ret.ok /\ columns_to_mark = {"Pizza", "MRD"}
    /\ Len(df.rows) = 2
    /\ \A k \in 1..2 : mask(df0, k, identifier, astype_keeps_na)
    /\ \A k \in 1..2 : df.rows[k]["Pizza"] = True /\ df.rows[k]["MRD"] = True

\* C3: a record matches iff the identifier equals, as a string, its Srn, Email
\* or Name; a column the roster lacks behaves as a column of empty strings.
C3_MatchRule ==
    calls >= 1 => \A k \in DOMAIN df0.rows :
        mask(df0, k, identifier, astype_keeps_na) <=> claim_match(df0, k, identifier)

\* C6: when a record matches and the write of the source file fails, the call
\* still succeeds, the matched records stay marked in memory, and the message
\* is not the plain "Marked".
C6_WriteFailureKeepsMarks ==
    (calls >= 1 /\ wrote = "raise") =>
        /\ ret.ok
        /\ ret.msg # "Marked"
        /\ all_matches_marked(df0, df, identifier, columns_to_mark, astype_keeps_na)

C6_Witness ==
    /\ calls = 1 /\ wrote = "raise" /\ ret.ok /\ columns_to_mark = {"Dinner"}
    /\ \E k \in DOMAIN df.rows : df0.rows[k]["Dinner"] # True /\ df.rows[k]["Dinner"] = True

same_value(d0, d, k, c) ==
    IF c \in d0.cols THEN c \in d.cols /\ d.rows[k][c] = d0.rows[k][c]
    ELSE \/ c \notin d.cols
         \/ c \in DEFAULT_COLUMNS /\ d.rows[k][c] = False
         \/ c \in TsColumns /\ (IsNA(d.rows[k][c]) \/ d.rows[k][c] = Str(""))

\* C13: a successful call changes only the records the mask selects: a record
\* it does not select keeps every flag and every timestamp (and every other
\* column), and a selected record keeps every column that is neither a
\* requested category nor its paired _ts column.
C13_MarksOnlyMatches ==
    (calls >= 1 /\ ret.ok) =>
        /\ DOMAIN df.rows = DOMAIN df0.rows
        /\ \A k \in DOMAIN df0.rows :
              IF mask(df0, k, identifier, astype_keeps_na)
              THEN \A c \in AllColumns \ (columns_to_mark \cup
                                           {ts_col(m) : m \in columns_to_mark}) :
                      /\ (c \in df.cols) = (c \in df0.cols)
                      /\ df.rows[k][c] = df0.rows[k][c]
              ELSE \A c \in AllColumns : same_value(df0, df, k, c)

C13_Witness ==
    /\ calls = 1 /\ ret.ok /\ columns_to_mark = {"Pizza", "MRD"}
    /\ Len(df.rows) = 2
    /\ ~mask(df0, 1, identifier, astype_keeps_na)
    /\ mask(df0, 2, identifier, astype_keeps_na)
    /\ df0.rows[1]["Dinner"] = True /\ df.rows[1]["Dinner"] = True
    /\ df.rows[1]["Dinner_ts"] = Str(isoformat(1))
    /\ df.rows[1]["Pizza"] = False /\ df.rows[2]["Pizza"] = True
    /\ df.rows[2]["Dinner"] = False

-----------------------------------------------------------------------------
(* Spec: a session.  Streamlit runs main() from the top on every interaction; *)
(* df and source_path are locals of that run, the widgets and the disk stay.  *)

MaxClock == 3

\* pd.read_excel(path): the workbook's cells; a file that is no workbook raises
read_excel(f) == read_csv(f)

\* main's loading of df and source_path
load(up, dsk) ==
    IF up # Missing
    THEN [status |-> "ok", origin |-> "upload", path |-> NoPath,
          df |-> IF up.fmt = "csv" THEN read_csv(up) ELSE read_excel(up)]
    ELSE IF dsk[WorkspaceCsv] # Missing
    THEN [status |-> "ok", origin |-> WorkspaceCsv, path |-> WorkspaceCsv,
          df |-> read_csv(dsk[WorkspaceCsv])]
    ELSE IF dsk[RootXlsx] # Missing
    THEN IF dsk[RootXlsx].fmt = "xlsx"
         THEN [status |-> "ok", origin |-> RootXlsx, path |-> RootXlsx,
               df |-> read_excel(dsk[RootXlsx])]
         ELSE [status |-> "exception", origin |-> RootXlsx, path |-> NoPath, df |-> NoDf]
    ELSE IF dsk[RootCsv] # Missing
    THEN [status |-> "ok", origin |-> RootCsv, path |-> RootCsv,
          df |-> read_csv(dsk[RootCsv])]
    ELSE [status |-> "no_roster", origin |-> "none", path |-> NoPath, df |-> NoDf]

\* a variant that resets the attendance columns it finds
ensure_attendance_columns_reset(d) ==
    [cols |-> d.cols \cup DEFAULT_COLUMNS \cup TsColumns,
     rows |-> [k \in DOMAIN d.rows |->
                 [c \in AllColumns |->
                    IF c \in DEFAULT_COLUMNS THEN False
                    ELSE IF c \in TsColumns THEN Str("")
                    ELSE d.rows[k][c]]]]

\* ensure_attendance_columns(df): each flag column and each _ts column the
\* frame lacks is created, False and "" in every row
ensure_attendance_columns(d) ==
    [cols |-> d.cols \cup DEFAULT_COLUMNS \cup TsColumns,
     rows |-> [k \in DOMAIN d.rows |->
                 [c \in AllColumns |->
                    IF c \in d.cols THEN d.rows[k][c]
                    ELSE IF c \in DEFAULT_COLUMNS THEN False
                    ELSE IF c \in TsColumns THEN Str("")
                    ELSE d.rows[k][c]]]]

\* the Admin checkboxes: each cell of T is one whose checkbox differs from the
\* loaded value; df.at[idx, c] = bool(new)
toggle(d, T) ==
    [d EXCEPT !.rows =
        [k \in DOMAIN d.rows |->
            [c \in AllColumns |->
                IF <<k, c>> \in T
                THEN IF py_bool(d.rows[k][c]) THEN False ELSE True
                ELSE d.rows[k][c]]]]

\* 'Save changes to roster' writes only a source that is a .csv
saves_source(path) == path \in {WorkspaceCsv, RootCsv}

NoKey == "<absent>"
\* identifier = payload_obj.get("id") or payload_obj.get("name")
payload_identifier(pl) ==
    IF pl.id # NoKey /\ pl.id # "" THEN pl.id ELSE pl.name

\* the rows and files a session starts from
SessionRosters ==
    { drawn_df(ps, IdColumns, "none") :
        ps \in { <<<<Str("Al"), Int("1"), Str("a@x"), Str("T1")>>,
                   <<Str("al"), NaN, NaN, Str("T1")>>>> } }
ScanPayloads ==
    { [id |-> NoKey, name |-> "Al"], [id |-> "", name |-> "al"],
      [id |-> "zz", name |-> "Al"], [id |-> NoKey, name |-> NoKey] }
ScanCategorySets == {{"Dinner"}}
\* the default roster files present when the session starts
DiskLayouts ==
    { {}, {WorkspaceCsv}, {RootXlsx}, {RootCsv}, {RootXlsx, RootCsv},
      {WorkspaceCsv, RootXlsx, RootCsv} }
ToggleSets(d) == {{}} \cup {{<<k, "Dinner">>} : k \in DOMAIN d.rows}

Init ==
    /\ astype_keeps_na \in BOOLEAN
    /\ now = 1
    /\ \E r \in SessionRosters :
          /\ uploaded \in {Missing, to_csv(r), to_excel(r)}
          /\ \E present \in DiskLayouts :
                disk = [p \in Paths |->
                          IF p \notin present THEN Missing
                          ELSE IF p = RootXlsx THEN to_excel(r) ELSE to_csv(r)]
    /\ disk0 = disk
    /\ df = NoDf /\ df0 = NoDf /\ export = NoDf
    /\ identifier = NoKey /\ columns_to_mark = {} /\ source_path = NoPath
    /\ ret = NoRet /\ ret0 = NoRet /\ wrote = "none" /\ calls = 0
    /\ mode = "none" /\ status = "none" /\ origin = "none"
    /\ marked = {}
    /\ CodecIdle
    /\ RaceIdle

\* a run of main that ends before any mode's code touches df
RunWithoutRoster(l) ==
    /\ status' = l.status /\ origin' = l.origin
    /\ df' = NoDf /\ df0' = NoDf /\ source_path' = NoPath
    /\ disk0' = disk
    /\ ret' = NoRet /\ wrote' = "none"
    /\ UNCHANGED <<disk, export, marked, now, identifier, columns_to_mark>>

\* a run in Admin mode: T the toggled checkboxes, save the Save button
AdminRun(T, save, wr) ==
    LET l == load(uploaded, disk) IN
    /\ mode' = "Admin"
    /\ IF l.status # "ok" THEN RunWithoutRoster(l)
       ELSE LET d == ensure_attendance_columns(l.df)
                e == toggle(d, T)
                changed == T # {}
            IN /\ status' = "ok" /\ origin' = l.origin
               /\ df0' = d /\ df' = e /\ source_path' = l.path
               /\ disk0' = disk
               /\ IF changed /\ save /\ saves_source(l.path)
                  THEN IF wr = "raise"
                       THEN wrote' = "raise" /\ disk' = disk
                       ELSE wrote' = "ok" /\ disk' = [disk EXCEPT ![l.path] = to_csv(e)]
                  ELSE wrote' = "none" /\ disk' = disk
               /\ export' = e
               /\ marked' = marked \ T
               /\ ret' = NoRet
               /\ UNCHANGED <<now, identifier, columns_to_mark>>
    /\ UNCHANGED <<astype_keeps_na, uploaded, callVars, codecVars, raceVars>>

\* a run in Scanner mode with a decoded payload
ScannerRun(pl, C, wr) ==
    LET l == load(uploaded, disk) IN
    /\ mode' = "Scanner"
    /\ now < MaxClock
    /\ IF l.status # "ok" THEN RunWithoutRoster(l)
       ELSE LET d == ensure_attendance_columns(l.df)
                i == payload_identifier(pl)
                r == IF i = NoKey
                     THEN [df |-> d, disk |-> disk, ok |-> FALSE, wrote |-> "none",
                           msg |-> "No matching row found for id 'None'"]
                     ELSE mark_attendance(d, disk, i, C, l.path, now, wr, astype_keeps_na)
            IN /\ status' = "ok" /\ origin' = l.origin
               /\ df0' = d /\ df' = r.df /\ source_path' = l.path
               /\ disk0' = disk /\ disk' = r.disk
               /\ ret' = [ok |-> r.ok, msg |-> r.msg] /\ wrote' = r.wrote
               /\ identifier' = i /\ columns_to_mark' = C
               /\ marked' = IF r.ok
                            THEN marked \cup {<<k, c>> \in (DOMAIN d.rows) \X C :
                                                mask(d, k, i, astype_keeps_na)}
                            ELSE marked
               /\ now' = IF r.ok THEN now + 1 ELSE now
               /\ UNCHANGED export
    /\ UNCHANGED <<astype_keeps_na, uploaded, callVars, codecVars, raceVars>>

\* a run in Export mode
ExportRun ==
    LET l == load(uploaded, disk) IN
    /\ mode' = "Export"
    /\ IF l.status # "ok" THEN RunWithoutRoster(l)
       ELSE LET d == ensure_attendance_columns(l.df)
            IN /\ status' = "ok" /\ origin' = l.origin
               /\ df0' = d /\ df' = d /\ source_path' = l.path
               /\ disk0' = disk
               /\ export' = d
               /\ ret' = NoRet /\ wrote' = "none"
               /\ UNCHANGED <<disk, marked, now, identifier, columns_to_mark>>
    /\ UNCHANGED <<astype_keeps_na, uploaded, callVars, codecVars, raceVars>>

Admin ==
    \E T \in ToggleSets(load(uploaded, disk).df), save \in BOOLEAN :
        \E wr \in IF save /\ T # {} THEN {"ok", "raise"} ELSE {"ok"} :
            AdminRun(T, save, wr)

Scanner ==
    \E pl \in ScanPayloads, C \in ScanCategorySets, wr \in {"ok", "raise"} :
        ScannerRun(pl, C, wr)

Next == Admin \/ Scanner \/ ExportRun

Spec == Init /\ [][Next]_vars

-----------------------------------------------------------------------------
(* Claims about a session, under Spec *)

empty_ts(c) == IsNA(c) \/ c = Str("")

\* C4: in every state the roster operations reach, every record's every
\* attendance flag has its _ts column, and the timestamp is empty iff the flag
\* is false.
C4_TimestampIffFlag ==
    status = "ok" =>
        \A k \in DOMAIN df.rows : \A c \in DEFAULT_COLUMNS :
            /\ c \in df.cols /\ ts_col(c) \in df.cols
            /\ empty_ts(df.rows[k][ts_col(c)]) <=> (df.rows[k][c] = False)

\* C5: a successful scan marking writes the roster only when it was loaded from
\* an on-disk .csv, and then overwrites exactly that path with the whole roster
\* as CSV; an uploaded roster or one loaded from teams.xlsx is never written.
C5_WritesOnlySourceCsv ==
    (mode = "Scanner" /\ status = "ok" /\ ret.ok) =>
        IF origin \in {WorkspaceCsv, RootCsv}
        THEN \/ wrote = "raise" /\ disk = disk0
             \/ wrote = "ok" /\ disk = [disk0 EXCEPT ![origin] = to_csv(df)]
        ELSE disk = disk0

\* C8: after a scan has successfully marked a record, a later Export or Admin
\* download in the same session holds that record's flag as true and its
\* timestamp, whatever the roster was loaded from; stated here for the
\* roster uploaded in the UI, which no write can fail for.
C8_ExportHoldsMarks ==
    (mode \in {"Export", "Admin"} /\ status = "ok" /\ origin = "upload") =>
        \A cell \in marked :
            /\ export.rows[cell[1]][cell[2]] = True
            /\ nonempty_ts(export.rows[cell[1]][ts_col(cell[2])])

-----------------------------------------------------------------------------
(* SpecCodec: a code is made for a roster row, or some other file is uploaded, *)
(* and decode_qr_from_bytes is run on it                                       *)

InitCodec ==
    /\ astype_keeps_na = FALSE /\ now = 1
    /\ disk = [p \in Paths |-> Missing] /\ disk0 = disk
    /\ df = NoDf /\ df0 = NoDf /\ export = NoDf
    /\ identifier = NoKey /\ columns_to_mark = {} /\ source_path = NoPath
    /\ ret = NoRet /\ ret0 = NoRet /\ wrote = "none" /\ calls = 0
    /\ uploaded = Missing /\ mode = "none" /\ status = "none" /\ origin = "none"
    /\ marked = {}
    /\ segno \in {"absent", "raises", "aztec"}
    /\ cv2 \in {"absent", "decodes", "misses", "raises"}
    /\ pyzbar \in {"absent", "decodes", "misses", "raises"}
    /\ \E p \in Profiles, ic \in SUBSET IdColumns : c_df = drawn_df(<<p>>, ic, "none")
    /\ image_bytes = NoImage /\ decoded = NoResult /\ tried = <<>> /\ cpc = "start"
    /\ RaceIdle

\* the codec touches no roster
RosterUnchanged ==
    /\ UNCHANGED <<astype_keeps_na, now, disk, df, identifier, columns_to_mark,
                   source_path, ret, df0, disk0, wrote>>
    /\ UNCHANGED <<sessionVars, callVars, raceVars>>

\* qr_bytes_for_row(row) for the roster's first row
QrBytesForRow ==
    /\ cpc = "start"
    /\ image_bytes' = generate_qr_image(make_payload(c_df, 1), segno)
    /\ cpc' = "image"
    /\ UNCHANGED <<segno, cv2, pyzbar, c_df, decoded, tried>>
    /\ RosterUnchanged

\* the Scanner's fallback uploader is given a picture without a code, or a
\* file that is no image
UploadOther(kind) ==
    /\ cpc = "start"
    /\ image_bytes' = [kind |-> kind, data |-> ""]
    /\ cpc' = "image"
    /\ UNCHANGED <<segno, cv2, pyzbar, c_df, decoded, tried>>
    /\ RosterUnchanged

Decode ==
    /\ cpc = "image"
    /\ LET r == decode_qr_from_bytes(image_bytes, cv2, pyzbar) IN
         /\ decoded' = r.result
         /\ tried' = r.tried
    /\ cpc' = "decoded"
    /\ UNCHANGED <<segno, cv2, pyzbar, c_df, image_bytes>>
    /\ RosterUnchanged

NextCodec ==
    \/ QrBytesForRow
    \/ \E kind \in {"photo", "garbage"} : UploadOther(kind)
    \/ Decode

SpecCodec == InitCodec /\ [][NextCodec]_vars

-----------------------------------------------------------------------------
(* Claims about the codec, under SpecCodec *)

\* the values a payload's team and name take
JsonValues ==
    {NaN} \cup {Str(s) : s \in {"", "Al", "al", "1", "T1", "T2"}}
JsonObjects == [team : JsonValues, name : JsonValues]

\* json.loads(text), for the objects make_payload writes
json_loads(text) ==
    IF \E o \in JsonObjects : json_dumps(o) = text
    THEN CHOOSE o \in JsonObjects : json_dumps(o) = text
    ELSE [team |-> None, name |-> None]

\* a decoder is installed that reads QR codes
decoder_works == cv2 = "decodes" \/ pyzbar = "decodes"

\* C9: for a roster record, the payload rendered as an image (Aztec when the
\* Aztec encoder is available, QR otherwise) and decoded again parses to the
\* record's Team Name and Name.
C9_RoundTrip ==
    (/\ cpc = "decoded" /\ image_bytes.data # ""
     /\ "Name" \in c_df.cols /\ decoder_works /\ pyzbar # "raises") =>
        /\ decoded.kind = "value"
        /\ json_loads(decoded.data) = [team |-> c_df.rows[1]["Team Name"],
                                       name |-> c_df.rows[1]["Name"]]

\* C10: decode_qr_from_bytes never raises: whatever the input and the decoders,
\* it returns the decoded string or None, and runs the second decoder only
\* after the first is unavailable or yields nothing.
C10_DecodeNeverRaises ==
    cpc = "decoded" =>
        /\ decoded.kind \in {"value", "none"}
        /\ (\E n \in DOMAIN tried : tried[n] = "pyzbar") =>
               (cv2 = "absent" \/ cv2_data(image_bytes, cv2) = "")

-----------------------------------------------------------------------------
(* SpecEnsure: ensure_attendance_columns applied, twice over, to rosters that *)
(* come with any part of the attendance columns                               *)

\* a roster of profiles ps that already has the attendance columns ac: its
\* first row marked at clock reading 1, the other rows unmarked
partial_df(ps, ac) ==
    infer_dtypes(
        [cols |-> IdColumns \cup {"Team Name"} \cup ac,
         rows |-> [k \in DOMAIN ps |->
                     [c \in AllColumns |->
                        IF c \in DEFAULT_COLUMNS \cup TsColumns
                        THEN IF c \notin ac THEN Absent
                             ELSE IF c \in DEFAULT_COLUMNS
                             THEN IF k = 1 THEN True ELSE False
                             ELSE IF k = 1 THEN Str(isoformat(1)) ELSE NaN
                        ELSE drawn_cell(ps[k], IdColumns, "none", k, c)]]])

InitEnsure ==
    /\ astype_keeps_na = FALSE /\ now = 1
    /\ disk = [p \in Paths |-> Missing] /\ disk0 = disk
    /\ \E ps \in Rosters(MaxRows), ac \in SUBSET (DEFAULT_COLUMNS \cup TsColumns) :
          /\ df = partial_df(ps, ac)
          /\ df0 = df
    /\ export = NoDf
    /\ identifier = NoKey /\ columns_to_mark = {} /\ source_path = NoPath
    /\ ret = NoRet /\ ret0 = NoRet /\ wrote = "none" /\ calls = 0
    /\ uploaded = Missing /\ mode = "none" /\ status = "none" /\ origin = "none"
    /\ marked = {}
    /\ CodecIdle
    /\ RaceIdle

\* df = ensure_attendance_columns(df)
Ensure ==
    /\ calls < MaxCalls
    /\ df' = ensure_attendance_columns(df)
    /\ df0' = df
    /\ calls' = calls + 1
    /\ UNCHANGED <<astype_keeps_na, now, disk, identifier, columns_to_mark,
                   source_path, ret, ret0, disk0, wrote>>
    /\ UNCHANGED <<sessionVars, codecVars, raceVars>>

NextEnsure == Ensure

SpecEnsure == InitEnsure /\ [][NextEnsure]_vars

-----------------------------------------------------------------------------
(* Claims about ensure_attendance_columns, under SpecEnsure *)

\* C11: after ensure_attendance_columns every flag has its column and its
\* paired _ts column; a column it created holds False (flag) or "" (timestamp)
\* in every record; every column that was there keeps its values and no other
\* column appears; and a second application changes nothing.
C11_EnsureColumns ==
    /\ calls >= 1 =>
          /\ df.cols = df0.cols \cup DEFAULT_COLUMNS \cup TsColumns
          /\ DOMAIN df.rows = DOMAIN df0.rows
          /\ \A k \in DOMAIN df.rows : \A c \in AllColumns :
                IF c \in df0.cols THEN df.rows[k][c] = df0.rows[k][c]
                ELSE IF c \in DEFAULT_COLUMNS THEN df.rows[k][c] = False
                ELSE IF c \in TsColumns THEN df.rows[k][c] = Str("")
                ELSE df.rows[k][c] = df0.rows[k][c]
    /\ calls >= 2 => df = df0

C11_Witness ==
    /\ calls = 1 /\ Len(df.rows) = 2
    /\ "Dinner" \in df0.cols /\ "Dinner_ts" \notin df0.cols
    /\ "Pizza" \notin df0.cols /\ "Pizza_ts" \in df0.cols
    /\ df.rows[1]["Dinner"] = True /\ df.rows[1]["Dinner_ts"] = Str("")
    /\ df.rows[1]["Pizza"] = False /\ df.rows[1]["Pizza_ts"] = Str(isoformat(1))

-----------------------------------------------------------------------------
(* SpecRace: two sessions on one on-disk CSV roster.  Each session's run of  *)
(* main is a thread of its own: it reads the file into its local df at the   *)
(* top, and a scan later in the run marks that df and overwrites the file.   *)

RacePayloads == {[id |-> NoKey, name |-> "Al"], [id |-> NoKey, name |-> "al"]}
RaceCategorySets == {{"Dinner"}}
RaceDiskLayouts == {{WorkspaceCsv}, {RootCsv}}

InitRace ==
    /\ astype_keeps_na \in BOOLEAN
    /\ now = 1
    /\ uploaded = Missing
    /\ \E r \in SessionRosters, present \in RaceDiskLayouts :
          disk = [p \in Paths |-> IF p \in present THEN to_csv(r) ELSE Missing]
    /\ disk0 = disk
    /\ df = NoDf /\ df0 = NoDf /\ export = NoDf
    /\ identifier = NoKey /\ columns_to_mark = {} /\ source_path = NoPath
    /\ ret = NoRet /\ ret0 = NoRet /\ wrote = "none" /\ calls = 0
    /\ mode = "none" /\ status = "none" /\ origin = "none"
    /\ marked = {}
    /\ CodecIdle
    /\ RaceIdle

\* what a session's run changes of the state a single session keeps: nothing
RaceFrame ==
    UNCHANGED <<astype_keeps_na, df, identifier, columns_to_mark, source_path,
                ret, calls, df0, disk0, ret0, wrote, sessionVars, codecVars>>

\* the top of a run of main in session s: df and source_path are read from disk
LoadRoster(s) ==
    LET l == load(uploaded, disk) IN
    /\ sessions[s].pc = "idle"
    /\ l.status = "ok"
    /\ sessions' = [sessions EXCEPT ![s] =
                      [pc |-> "loaded", df |-> ensure_attendance_columns(l.df),
                       path |-> l.path, seen |-> Len(writes)]]
    /\ UNCHANGED <<now, disk, writes>>
    /\ RaceFrame

\* a variant that reads the file again when the scan arrives
scan_df_fresh(s) == ensure_attendance_columns(load(uploaded, disk).df)

\* the df a scan in session s marks: the local the run loaded at its top
scan_df(s) == sessions[s].df

\* the Scanner of session s gets a payload: mark_attendance on the run's df,
\* which overwrites the file; the run ends
ScanMark(s, pl, C, wr) ==
    /\ sessions[s].pc = "loaded"
    /\ now < MaxClock
    /\ LET d == scan_df(s)
           i == payload_identifier(pl)
           r == mark_attendance(d, disk, i, C, sessions[s].path, now, wr,
                                astype_keeps_na)
       IN /\ disk' = r.disk
          /\ sessions' = [sessions EXCEPT ![s] = [NoRun EXCEPT !.df = r.df]]
          /\ writes' = IF r.wrote = "ok"
                       THEN Append(writes,
                                   [s |-> s, path |-> sessions[s].path, t |-> now,
                                    seen |-> sessions[s].seen,
                                    cells |-> {cell \in (DOMAIN d.rows) \X C :
                                                 mask(d, cell[1], i, astype_keeps_na)}])
                       ELSE writes
          /\ now' = IF r.ok THEN now + 1 ELSE now
    /\ RaceFrame

\* the run of session s ends without a scan
RunEnds(s) ==
    /\ sessions[s].pc = "loaded"
    /\ sessions' = [sessions EXCEPT ![s] = NoRun]
    /\ UNCHANGED <<now, disk, writes>>
    /\ RaceFrame

NextRace ==
    \/ \E s \in Sessions : LoadRoster(s)
    \/ \E s \in Sessions, pl \in RacePayloads, C \in RaceCategorySets,
          wr \in {"ok", "raise"} : ScanMark(s, pl, C, wr)
    \/ \E s \in Sessions : RunEnds(s)

SpecRace == InitRace /\ [][NextRace]_vars

-----------------------------------------------------------------------------
(* Claims about two sessions, under SpecRace *)

\* the rows an overwrite marked
write_rows(w) == {cell[1] : cell \in w.cells}

\* the roster file as it reads now
file_df(path) == read_csv(disk[path])

\* C12: two sessions on one CSV file lose an update.  Whenever a session
\* overwrote the file with a mark and another session, whose run had loaded
\* the file before that, then overwrote it with a mark on other records and
\* nothing was written since, the file does not hold the first session's mark
\* (the flag with the timestamp it wrote); nothing stops the second overwrite.
C12_LostUpdate ==
    \A n \in DOMAIN writes : \A m \in DOMAIN writes :
        (/\ n < m /\ m = Len(writes)
         /\ writes[n].s # writes[m].s
         /\ writes[m].seen < n
         /\ write_rows(writes[n]) \cap write_rows(writes[m]) = {}) =>
            \A cell \in writes[n].cells :
                LET row == file_df(writes[m].path).rows[cell[1]] IN
                ~(/\ row[cell[2]] = True
                  /\ row[ts_col(cell[2])] = Str(isoformat(writes[n].t)))

\* A and B both loaded the file, A marked the first record, B the second, and
\* the file has B's mark and not A's
C12_Witness ==
    /\ Len(writes) = 2
    /\ writes[1].s = "A" /\ writes[1].seen = 0 /\ writes[1].cells = {<<1, "Dinner">>}
    /\ writes[2].s = "B" /\ writes[2].seen = 0 /\ writes[2].cells = {<<2, "Dinner">>}
    /\ file_df(writes[2].path).rows[1]["Dinner"] # True
    /\ file_df(writes[2].path).rows[2]["Dinner"] = True

-----------------------------------------------------------------------------
(* SpecCheckIn: the code made for a roster's first record is scanned: the    *)
(* payload of make_payload, the identifier as the Scanner resolves it, and   *)
(* mark_attendance with it                                                   *)

\* two participants of one name in different teams, and a third
CheckInProfiles ==
    { <<Str("Al"), Int("1"), Str("a@x"), Str("T1")>>,
      <<Str("Al"), Int("3"), Str("b@x"), Str("T2")>>,
      <<Str("al"), NaN, NaN, Str("T1")>> }
CheckInRosters(n) == UNION {[1..m -> CheckInProfiles] : m \in 1..n}
CheckInCategorySets == {{"Dinner"}, {"Pizza", "MRD"}}

InitCheckIn ==
    /\ astype_keeps_na \in BOOLEAN
    /\ now = 2
    /\ \E ps \in CheckInRosters(MaxRows), ic \in SUBSET IdColumns,
          l \in {"none", "ensured"} :
          /\ df = drawn_df(ps, ic, l)
          /\ df0 = df
    /\ identifier = NoKey
    /\ columns_to_mark \in CheckInCategorySets
    /\ source_path \in {NoPath, RootCsv}
    /\ disk = [p \in Paths |-> IF p = source_path THEN to_csv(df) ELSE Missing]
    /\ disk0 = disk
    /\ ret = NoRet /\ ret0 = NoRet /\ wrote = "none" /\ calls = 0
    /\ uploaded = Missing /\ mode = "none" /\ status = "none" /\ origin = "none"
    /\ export = NoDf
    /\ marked = {}
    /\ CodecIdle
    /\ RaceIdle

\* payload_obj.get("id") or payload_obj.get("name"), for an object that
\* make_payload wrote: it has no id key
scan_identifier(obj) == py_or(None, obj.name)

\* a scan of the code of row 1: json.loads of the payload, the identifier,
\* mark_attendance; an identifier that is no string equals no cell of the mask
CheckIn(wr) ==
    /\ calls < MaxCalls
    /\ LET payload == make_payload(df, 1)
           i == scan_identifier(json_loads(payload))
           r == IF i.t = "str"
                THEN mark_attendance(df, disk, i.v, columns_to_mark, source_path,
                                     now, wr, astype_keeps_na)
                ELSE [df |-> df, disk |-> disk, ok |-> FALSE, wrote |-> "none",
                      msg |-> "No matching row found for id 'nan'"]
       IN /\ decoded' = [kind |-> "value", data |-> payload]
          /\ identifier' = IF i.t = "str" THEN i.v ELSE NoKey
          /\ df' = r.df
          /\ disk' = r.disk
          /\ ret' = [ok |-> r.ok, msg |-> r.msg]
          /\ wrote' = r.wrote
    /\ ret0' = ret
    /\ df0' = df
    /\ disk0' = disk
    /\ calls' = calls + 1
    /\ now' = now + 1
    /\ UNCHANGED <<astype_keeps_na, columns_to_mark, source_path>>
    /\ UNCHANGED <<sessionVars, raceVars>>
    /\ UNCHANGED <<segno, cv2, pyzbar, c_df, image_bytes, tried, cpc>>

NextCheckIn == \E wr \in {"ok", "raise"} : CheckIn(wr)

SpecCheckIn == InitCheckIn /\ [][NextCheckIn]_vars

-----------------------------------------------------------------------------
(* Claims about a scanned code, under SpecCheckIn *)

\* the record the code was made for has a Name that is not empty
named_record(d, k) ==
    /\ "Name" \in d.cols
    /\ d.rows[k]["Name"].t = "str" /\ d.rows[k]["Name"].v # ""

\* C14: the code made for a record with a non-empty Name checks that record
\* in: the call succeeds, the record has every category True, and no record
\* of a team other than the one the payload names is marked.
C14_CodeChecksIn ==
    (calls >= 1 /\ named_record(df0, 1)) =>
        /\ ret.ok
        /\ \A c \in columns_to_mark : df.rows[1][c] = True
        /\ \A k \in DOMAIN df0.rows :
              mask(df0, k, identifier, astype_keeps_na) =>
                  df0.rows[k]["Team Name"] = json_loads(decoded.data).team


=============================================================================
